---- MODULE Spec2Model ----
(***************************************************************************)
(* Model of the version-manifest decoder of mc-launchermeta                *)
(* (src/version/mod.rs, src/version/library.rs).                           *)
(*                                                                         *)
(* The crate is a set of serde data types.  The model has three layers:    *)
(*   - a JSON document tree (what serde_json hands to the visitors),       *)
(*   - the hand-written visitors (ArrayOrStringHelper, Argument) and the   *)
(*     derived Deserialize / Serialize of the structs, driven by type      *)
(*     descriptors that transcribe the struct declarations,                *)
(*   - a state machine whose actions are the entry points a caller has:    *)
(*     serde_json::from_str::<T>, serde_json::to_value, Argument::from_str.*)
(***************************************************************************)
EXTENDS Integers, Sequences, FiniteSets, TLC

VARIABLES op, typed, wire, result

vars == <<op, typed, wire, result>>

(***************************************************************************)
(* Bounds of the model.                                                    *)
(***************************************************************************)
\* longest member list of a raw argument object
MaxMembers == 3
\* longest raw "value" array of an argument object
MaxValues == 2
\* longest game / jvm argument list of a manifest value
MaxArgs == 2
\* longest condition list handed to the rule evaluator
MaxRules == 2
\* longest list of conditional entries handed to the selector
MaxEntries == 3
\* longest library list handed to the selector
MaxLibraries == 3

(***************************************************************************)
(* JSON document tree.  Every node has the same shape so that nodes of     *)
(* different kinds can be compared.                                        *)
(***************************************************************************)
JNull == [kind |-> "null", str |-> "", num |-> 0, items |-> <<>>, members |-> <<>>]
JBool(b) == [kind |-> "bool", str |-> "", num |-> IF b THEN 1 ELSE 0, items |-> <<>>, members |-> <<>>]
JNum(n) == [kind |-> "num", str |-> "", num |-> n, items |-> <<>>, members |-> <<>>]
JStr(s) == [kind |-> "str", str |-> s, num |-> 0, items |-> <<>>, members |-> <<>>]
JArr(xs) == [kind |-> "arr", str |-> "", num |-> 0, items |-> xs, members |-> <<>>]
JObj(ms) == [kind |-> "obj", str |-> "", num |-> 0, items |-> <<>>, members |-> ms]
Member(k, v) == [key |-> k, val |-> v]

Keys(ms) == {ms[i].key : i \in 1..Len(ms)}
\* number of members of ms carrying key k
Occurrences(ms, k) == Cardinality({i \in 1..Len(ms) : ms[i].key = k})
\* position of the first member carrying key k (0 when there is none)
FirstIndex(ms, k) ==
    IF k \in Keys(ms) THEN CHOOSE i \in 1..Len(ms) : ms[i].key = k /\ \A j \in 1..(i-1) : ms[j].key # k
    ELSE 0
\* ms with member m inserted so that it becomes the p-th member
InsertAt(ms, p, m) == SubSeq(ms, 1, p-1) \o <<m>> \o SubSeq(ms, p, Len(ms))
\* all sequences over S of length at most n
SeqUpTo(S, n) == UNION {[1..k -> S] : k \in 0..n}

(***************************************************************************)
(* Result<T, D::Error>.  An Option<T> is <<>> (None) or <<x>> (Some(x)).   *)
(***************************************************************************)
Ok(v) == [ok |-> TRUE, val |-> <<v>>, err |-> "", field |-> ""]
Err(kind, f) == [ok |-> FALSE, val |-> <<>>, err |-> kind, field |-> f]
None == <<>>
Some(x) == <<x>>
NoResult == [ok |-> FALSE, val |-> <<>>, err |-> "none", field |-> ""]

\* serde::de::Error constructors used by the visitors
invalid_type == Err("TypeMismatch", "")
invalid_value == Err("InvalidValue", "")
invalid_length == Err("InvalidLength", "")
unknown_variant(v) == Err("InvalidEnumValue", v)
missing_field(f) == Err("MissingField", f)
duplicate_field(f) == Err("DuplicateField", f)
unknown_field(f) == Err("UnknownField", f)

(***************************************************************************)
(* ArrayOrStringHelper (mod.rs 29-65): the scalar-or-sequence normalizer.  *)
(***************************************************************************)
\* next_element::<String>() : a JSON string, anything else is invalid_type
String_deserialize(raw) ==
    IF raw.kind = "str" THEN Ok(raw.str) ELSE invalid_type

\* variant: the empty string is taken for "no value"
ArrayOrStringVisitor_visit_str_nonempty(s) == IF s = "" THEN Ok(<<>>) ELSE Ok(<<s>>)

ArrayOrStringVisitor_visit_str(s) == Ok(<<s>>)

RECURSIVE ArrayOrStringVisitor_next(_, _, _)
\* variant: every element is put in front of the ones collected before it
ArrayOrStringVisitor_next_prepend(items, i, vec) ==
    IF i > Len(items) THEN Ok(vec)
    ELSE LET elem == String_deserialize(items[i])
         IN IF ~elem.ok THEN elem
            ELSE ArrayOrStringVisitor_next(items, i + 1, <<elem.val[1]>> \o vec)

ArrayOrStringVisitor_next(items, i, vec) ==
    IF i > Len(items) THEN Ok(vec)
    ELSE LET elem == String_deserialize(items[i])
         IN IF ~elem.ok THEN elem
            ELSE ArrayOrStringVisitor_next(items, i + 1, Append(vec, elem.val[1]))

\* variant: the first element is consumed by the shape probe and lost
ArrayOrStringVisitor_visit_seq_skip(items) == ArrayOrStringVisitor_next(items, 2, <<>>)

ArrayOrStringVisitor_visit_seq(items) == ArrayOrStringVisitor_next(items, 1, <<>>)

\* variant: a value of another shape is taken for "no values"
ArrayOrStringHelper_deserialize_tolerant(raw) ==
    CASE raw.kind = "str" -> ArrayOrStringVisitor_visit_str(raw.str)
      [] raw.kind = "arr" -> ArrayOrStringVisitor_visit_seq(raw.items)
      [] OTHER -> Ok(<<>>)

ArrayOrStringHelper_deserialize(raw) ==
    CASE raw.kind = "str" -> ArrayOrStringVisitor_visit_str(raw.str)
      [] raw.kind = "arr" -> ArrayOrStringVisitor_visit_seq(raw.items)
      [] OTHER -> invalid_type

(***************************************************************************)
(* Type descriptors: one per Rust type that is (de)serialized.  A struct   *)
(* descriptor transcribes the declaration: its serde container attributes  *)
(* (deny_unknown_fields, rename_all = "camelCase") and, per field, the     *)
(* Rust name, an explicit rename, the type and #[serde(default)].          *)
(***************************************************************************)
TString == [t |-> "String"]
TU8 == [t |-> "u8"]
TU64 == [t |-> "u64"]
TBool == [t |-> "bool"]
TOption(x) == [t |-> "Option", of |-> x]
TVec(x) == [t |-> "Vec", of |-> x]
TBTreeMap(x) == [t |-> "BTreeMap", of |-> x]
TEnum(n, vs) == [t |-> "enum", name |-> n, variants |-> vs]
TStruct(n, deny, camel, fs) ==
    [t |-> "struct", name |-> n, deny_unknown_fields |-> deny, camelCase |-> camel, fields |-> fs]
TArgument == [t |-> "Argument"]
TArrayOrStringHelper == [t |-> "ArrayOrStringHelper"]
Field(rust, ren, ty, dflt) == [rust |-> rust, rename |-> ren, ty |-> ty, default |-> dflt]

\* rename_all = "camelCase" on the field names of this crate
CamelCase(name) ==
    CASE name = "asset_index" -> "assetIndex"
      [] name = "total_size" -> "totalSize"
      [] name = "minecraft_arguments" -> "minecraftArguments"
      [] name = "compliance_level" -> "complianceLevel"
      [] name = "java_version" -> "javaVersion"
      [] name = "major_version" -> "majorVersion"
      [] name = "main_class" -> "mainClass"
      [] name = "minimum_launcher_version" -> "minimumLauncherVersion"
      [] name = "release_time" -> "releaseTime"
      [] OTHER -> name

\* the key under which field f of struct st travels on the wire
WireName(st, f) ==
    IF f.rename # "" THEN f.rename
    ELSE IF st.camelCase THEN CamelCase(f.rust) ELSE f.rust

FieldNames(st) == {st.fields[i].rust : i \in 1..Len(st.fields)}
\* variant: the name of the field in the model is accepted as an alias
FieldIndex_alias(st, key) ==
    LET hits == {i \in 1..Len(st.fields) :
                    WireName(st, st.fields[i]) = key \/ st.fields[i].rust = key}
    IN IF hits = {} THEN 0 ELSE CHOOSE i \in hits : TRUE

\* index of the field of st whose wire name is key (0: not a field)
FieldIndex(st, key) ==
    LET hits == {i \in 1..Len(st.fields) : WireName(st, st.fields[i]) = key}
    IN IF hits = {} THEN 0 ELSE CHOOSE i \in hits : TRUE
SetMin(S) == CHOOSE x \in S : \A y \in S : x <= y

\* --- rule.rs, logging.rs and the crate root are not part of the sources;
\* --- their types are transcribed from the documents in the tests and the
\* --- data model of the specification.
RuleAction_T == TEnum("RuleAction", <<"allow", "deny">>)
Os_T == TStruct("Os", TRUE, FALSE, <<
    Field("name", "", TOption(TString), TRUE),
    Field("arch", "", TOption(TString), TRUE),
    Field("version", "", TOption(TString), TRUE) >>)
Rule_T == TStruct("Rule", TRUE, FALSE, <<
    Field("action", "", RuleAction_T, FALSE),
    Field("os", "", TOption(Os_T), TRUE),
    Field("features", "", TOption(TBTreeMap(TBool)), TRUE) >>)
LoggingFile_T == TStruct("LoggingFile", TRUE, FALSE, <<
    Field("id", "", TString, FALSE),
    Field("sha1", "", TString, FALSE),
    Field("size", "", TU64, FALSE),
    Field("url", "", TString, FALSE) >>)
LoggingClient_T == TStruct("LoggingClient", TRUE, FALSE, <<
    Field("argument", "", TString, FALSE),
    Field("file", "", LoggingFile_T, FALSE),
    Field("kind", "type", TString, FALSE) >>)
Logging_T == TStruct("Logging", TRUE, FALSE, <<
    Field("client", "", LoggingClient_T, FALSE) >>)
VersionKind_T == TEnum("VersionKind", <<"release", "snapshot", "old_beta", "old_alpha">>)

\* --- library.rs
Artifact_T == TStruct("Artifact", TRUE, FALSE, <<
    Field("path", "", TString, FALSE),
    Field("sha1", "", TString, FALSE),
    Field("size", "", TU64, FALSE),
    Field("url", "", TString, FALSE) >>)
LibraryDownloads_T == TStruct("library::Downloads", TRUE, FALSE, <<
    Field("artifact", "", TOption(Artifact_T), TRUE),
    Field("classifiers", "", TOption(TBTreeMap(Artifact_T)), TRUE) >>)
Natives_T == TStruct("Natives", FALSE, FALSE, <<
    Field("linux", "", TOption(TString), FALSE),
    Field("osx", "", TOption(TString), FALSE),
    Field("windows", "", TOption(TString), FALSE) >>)
Extract_T == TBTreeMap(TVec(TString))
Library_T == TStruct("Library", TRUE, FALSE, <<
    Field("downloads", "", TOption(LibraryDownloads_T), FALSE),
    Field("name", "", TString, FALSE),
    Field("extract", "", TOption(Extract_T), TRUE),
    Field("natives", "", TOption(Natives_T), TRUE),
    Field("rules", "", TOption(TVec(Rule_T)), TRUE) >>)

\* --- mod.rs
\* Argument derives Serialize only (mod.rs 23-27): this is what is written
Argument_T == TStruct("Argument", FALSE, FALSE, <<
    Field("rules", "", TVec(Rule_T), FALSE),
    Field("values", "", TVec(TString), FALSE) >>)
Arguments_T == TStruct("Arguments", TRUE, FALSE, <<
    Field("game", "", TVec(TArgument), FALSE),
    Field("jvm", "", TVec(TArgument), FALSE) >>)
AssetIndex_T == TStruct("AssetIndex", TRUE, TRUE, <<
    Field("id", "", TString, FALSE),
    Field("sha1", "", TString, FALSE),
    Field("size", "", TU64, FALSE),
    Field("total_size", "", TU64, FALSE),
    Field("url", "", TString, FALSE) >>)
Download_T == TStruct("Download", TRUE, FALSE, <<
    Field("sha1", "", TString, FALSE),
    Field("size", "", TU64, FALSE),
    Field("url", "", TString, FALSE) >>)
Downloads_T == TStruct("Downloads", TRUE, FALSE, <<
    Field("client", "", Download_T, FALSE),
    Field("client_mappings", "", TOption(Download_T), TRUE),
    Field("server", "", TOption(Download_T), TRUE),
    Field("server_mappings", "", TOption(Download_T), TRUE),
    Field("windows_server", "", TOption(Download_T), TRUE) >>)
JavaVersion_T == TStruct("JavaVersion", TRUE, TRUE, <<
    Field("component", "", TString, FALSE),
    Field("major_version", "", TU8, FALSE) >>)
\* variant: the legacy field keeps the spelling minecraft_arguments on the wire
Version_T_legacy_snake == TStruct("Version", TRUE, TRUE, <<
    Field("arguments", "", TOption(Arguments_T), TRUE),
    Field("minecraft_arguments", "minecraft_arguments", TOption(TString), TRUE),
    Field("asset_index", "", AssetIndex_T, FALSE),
    Field("assets", "", TString, FALSE),
    Field("compliance_level", "", TOption(TU8), TRUE),
    Field("downloads", "", Downloads_T, FALSE),
    Field("id", "", TString, FALSE),
    Field("java_version", "", TOption(JavaVersion_T), TRUE),
    Field("libraries", "", TVec(Library_T), FALSE),
    Field("logging", "", TOption(Logging_T), TRUE),
    Field("main_class", "", TString, FALSE),
    Field("minimum_launcher_version", "", TU8, FALSE),
    Field("release_time", "", TString, FALSE),
    Field("time", "", TString, FALSE),
    Field("kind", "type", VersionKind_T, FALSE) >>)
Version_T == TStruct("Version", TRUE, TRUE, <<
    Field("arguments", "", TOption(Arguments_T), TRUE),
    Field("minecraft_arguments", "", TOption(TString), TRUE),
    Field("asset_index", "", AssetIndex_T, FALSE),
    Field("assets", "", TString, FALSE),
    Field("compliance_level", "", TOption(TU8), TRUE),
    Field("downloads", "", Downloads_T, FALSE),
    Field("id", "", TString, FALSE),
    Field("java_version", "", TOption(JavaVersion_T), TRUE),
    Field("libraries", "", TVec(Library_T), FALSE),
    Field("logging", "", TOption(Logging_T), TRUE),
    Field("main_class", "", TString, FALSE),
    Field("minimum_launcher_version", "", TU8, FALSE),
    Field("release_time", "", TString, FALSE),
    Field("time", "", TString, FALSE),
    Field("kind", "type", VersionKind_T, FALSE) >>)

(***************************************************************************)
(* Deserialize / Serialize.  In-memory values: a String is a string, an    *)
(* integer an Int, an Option <<>> or <<x>>, a Vec a sequence, a BTreeMap a *)
(* function on its key set, a struct a function on its Rust field names,   *)
(* an enum the name of its variant.                                        *)
(***************************************************************************)
\* keys that occur in BTreeMaps of the model, in ascending (BTreeMap) order
MapKeyOrder == <<"META-INF/", "exclude", "has_custom_resolution", "is_demo_user",
                 "natives-linux", "natives-osx">>
MapKeyRank(k) == CHOOSE i \in 1..Len(MapKeyOrder) : MapKeyOrder[i] = k
RECURSIVE SortedKeys(_)
SortedKeys(S) ==
    IF S = {} THEN <<>>
    ELSE LET k == CHOOSE x \in S : \A y \in S : MapKeyRank(x) <= MapKeyRank(y)
         IN <<k>> \o SortedKeys(S \ {k})

RECURSIVE Deserialize(_, _)
RECURSIVE Serialize(_, _)
RECURSIVE Vec_visit_seq(_, _, _, _)
RECURSIVE BTreeMap_visit_map(_, _, _, _)
RECURSIVE Struct_visit_map(_, _, _, _)
RECURSIVE Struct_visit_seq(_, _, _, _)
RECURSIVE ArgumentVisitor_next(_, _, _, _)

\* unsigned integers: a JSON integer in range; a negative or too large
\* integer is invalid_value, any other JSON kind invalid_type
U8Max == 255
\* the integers of the model stay far below 2^64 - 1, the largest u64
Unsigned_deserialize(raw, bits) ==
    IF raw.kind # "num" THEN invalid_type
    ELSE IF raw.num < 0 \/ (bits = 8 /\ raw.num > U8Max) THEN invalid_value
    ELSE Ok(raw.num)

Bool_deserialize(raw) == IF raw.kind = "bool" THEN Ok(raw.num = 1) ELSE invalid_type

Enum_deserialize(ty, raw) ==
    IF raw.kind # "str" THEN invalid_type
    ELSE IF \E i \in 1..Len(ty.variants) : ty.variants[i] = raw.str THEN Ok(raw.str)
    ELSE unknown_variant(raw.str)

\* variant: an element that fails to decode is left out
Vec_visit_seq_lenient(ty, items, i, vec) ==
    IF i > Len(items) THEN Ok(vec)
    ELSE LET elem == Deserialize(ty, items[i])
         IN IF ~elem.ok THEN Vec_visit_seq(ty, items, i + 1, vec)
            ELSE Vec_visit_seq(ty, items, i + 1, Append(vec, elem.val[1]))

Vec_visit_seq(ty, items, i, vec) ==
    IF i > Len(items) THEN Ok(vec)
    ELSE LET elem == Deserialize(ty, items[i])
         IN IF ~elem.ok THEN elem
            ELSE Vec_visit_seq(ty, items, i + 1, Append(vec, elem.val[1]))

\* BTreeMap::insert: a repeated key replaces the earlier entry
BTreeMap_visit_map(ty, ms, i, map) ==
    IF i > Len(ms) THEN Ok(map)
    ELSE LET v == Deserialize(ty, ms[i].val)
         IN IF ~v.ok THEN v
            ELSE BTreeMap_visit_map(ty, ms, i + 1,
                    [k \in (DOMAIN map) \cup {ms[i].key} |->
                        IF k = ms[i].key THEN v.val[1] ELSE map[k]])

\* variant: only #[serde(default)] makes a field optional
Struct_finish_strict(st, acc) ==
    LET missing == {i \in 1..Len(st.fields) :
                        acc[st.fields[i].rust] = None /\ ~st.fields[i].default}
    IN IF missing # {} THEN missing_field(WireName(st, st.fields[SetMin(missing)]))
       ELSE Ok([n \in FieldNames(st) |-> IF acc[n] = None THEN None ELSE acc[n][1]])

\* after the last key: a field never seen is None when it is an Option or
\* has #[serde(default)], otherwise the first such field is reported missing
Struct_finish(st, acc) ==
    LET missing == {i \in 1..Len(st.fields) :
                        /\ acc[st.fields[i].rust] = None
                        /\ ~st.fields[i].default
                        /\ st.fields[i].ty.t # "Option"}
    IN IF missing # {} THEN missing_field(WireName(st, st.fields[SetMin(missing)]))
       ELSE Ok([n \in FieldNames(st) |-> IF acc[n] = None THEN None ELSE acc[n][1]])

\* variant: deny_unknown_fields has no effect
Struct_unknown_key_ignored(st, ms, i, acc) == Struct_visit_map(st, ms, i + 1, acc)

\* the key of a member that is not a field: rejected under
\* #[serde(deny_unknown_fields)], otherwise the member is skipped
Struct_unknown_key(st, ms, i, acc) ==
    IF st.deny_unknown_fields THEN unknown_field(ms[i].key)
    ELSE Struct_visit_map(st, ms, i + 1, acc)

\* derived visit_map: members in document order
Struct_visit_map(st, ms, i, acc) ==
    IF i > Len(ms) THEN Struct_finish(st, acc)
    ELSE LET fi == FieldIndex(st, ms[i].key)
         IN IF fi = 0 THEN Struct_unknown_key(st, ms, i, acc)
            ELSE LET f == st.fields[fi]
                 IN IF acc[f.rust] # None THEN duplicate_field(WireName(st, f))
                    ELSE LET v == Deserialize(f.ty, ms[i].val)
                         IN IF ~v.ok THEN v
                            ELSE Struct_visit_map(st, ms, i + 1,
                                    [acc EXCEPT ![f.rust] = Some(v.val[1])])

\* derived visit_seq: a struct is also accepted as an array of its fields in
\* declaration order; a missing trailing element is taken from
\* #[serde(default)] or is invalid_length, as is a surplus element
Struct_visit_seq(st, items, i, acc) ==
    IF i > Len(st.fields)
    THEN IF Len(items) > Len(st.fields) THEN invalid_length
         ELSE Ok([n \in FieldNames(st) |-> IF acc[n] = None THEN None ELSE acc[n][1]])
    ELSE LET f == st.fields[i]
         IN IF i > Len(items)
            THEN IF f.default THEN Struct_visit_seq(st, items, i + 1, acc)
                 ELSE invalid_length
            ELSE LET v == Deserialize(f.ty, items[i])
                 IN IF ~v.ok THEN v
                    ELSE Struct_visit_seq(st, items, i + 1,
                            [acc EXCEPT ![f.rust] = Some(v.val[1])])

Struct_deserialize(st, raw) ==
    CASE raw.kind = "obj" -> Struct_visit_map(st, raw.members, 1, [n \in FieldNames(st) |-> None])
      [] raw.kind = "arr" -> Struct_visit_seq(st, raw.items, 1, [n \in FieldNames(st) |-> None])
      [] OTHER -> invalid_type

(***************************************************************************)
(* Argument (mod.rs 78-138): the conditional entry decoder.                *)
(***************************************************************************)
\* variant: the string is taken for a rule-less entry without values
ArgumentVisitor_visit_str_empty(s) == Ok([rules |-> <<>>, values |-> <<>>])

ArgumentVisitor_visit_str(s) == Ok([rules |-> <<>>, values |-> <<s>>])

\* variant: absent rules default to the empty list
ArgumentVisitor_finish_default(rules, value) ==
    IF value = None THEN missing_field("value")
    ELSE Ok([rules |-> IF rules = None THEN <<>> ELSE rules[1], values |-> value[1]])

\* mod.rs 126-132, after the last key
ArgumentVisitor_finish(rules, value) ==
    IF rules = None THEN missing_field("rules")
    ELSE IF value = None THEN missing_field("value")
    ELSE Ok([rules |-> rules[1], values |-> value[1]])

\* variant: the rules are stored in reverse order
ArgumentVisitor_key_rules_reversed(ms, i, rules, value) ==
    IF rules # None THEN duplicate_field("rules")
    ELSE LET r == Deserialize(TVec(Rule_T), ms[i].val)
         IN IF ~r.ok THEN r
            ELSE ArgumentVisitor_next(ms, i + 1,
                    Some([k \in 1..Len(r.val[1]) |-> r.val[1][Len(r.val[1]) + 1 - k]]), value)

\* variant: the rules are decoded but an empty list is stored
ArgumentVisitor_key_rules_discarded(ms, i, rules, value) ==
    IF rules # None THEN duplicate_field("rules")
    ELSE LET r == Deserialize(TVec(Rule_T), ms[i].val)
         IN IF ~r.ok THEN r
            ELSE ArgumentVisitor_next(ms, i + 1, Some(<<>>), value)

\* mod.rs 108-113
ArgumentVisitor_key_rules(ms, i, rules, value) ==
    IF rules # None THEN duplicate_field("rules")
    ELSE LET r == Deserialize(TVec(Rule_T), ms[i].val)
         IN IF ~r.ok THEN r
            ELSE ArgumentVisitor_next(ms, i + 1, Some(r.val[1]), value)

\* variant: no duplicate check, a later value replaces the earlier one
ArgumentVisitor_key_value_overwrite(ms, i, rules, value) ==
    LET v == ArrayOrStringHelper_deserialize(ms[i].val)
    IN IF ~v.ok THEN v
       ELSE ArgumentVisitor_next(ms, i + 1, rules, Some(v.val[1]))

\* variant: the value is only taken once the rules have been read
ArgumentVisitor_key_value_after_rules(ms, i, rules, value) ==
    IF rules = None THEN missing_field("rules")
    ELSE IF value # None THEN duplicate_field("value")
    ELSE LET v == ArrayOrStringHelper_deserialize(ms[i].val)
         IN IF ~v.ok THEN v
            ELSE ArgumentVisitor_next(ms, i + 1, rules, Some(v.val[1]))

\* mod.rs 114-119
ArgumentVisitor_key_value(ms, i, rules, value) ==
    IF value # None THEN duplicate_field("value")
    ELSE LET v == ArrayOrStringHelper_deserialize(ms[i].val)
         IN IF ~v.ok THEN v
            ELSE ArgumentVisitor_next(ms, i + 1, rules, Some(v.val[1]))

\* variant: a key that is not known is skipped
ArgumentVisitor_key_other_skip(ms, i, rules, value) == ArgumentVisitor_next(ms, i + 1, rules, value)

\* mod.rs 120-122
ArgumentVisitor_key_other(ms, i, rules, value) == unknown_field(ms[i].key)

\* mod.rs 106-124, one turn of the while loop
ArgumentVisitor_next(ms, i, rules, value) ==
    IF i > Len(ms) THEN ArgumentVisitor_finish(rules, value)
    ELSE CASE ms[i].key = "rules" -> ArgumentVisitor_key_rules(ms, i, rules, value)
           [] ms[i].key = "value" -> ArgumentVisitor_key_value(ms, i, rules, value)
           [] OTHER -> ArgumentVisitor_key_other(ms, i, rules, value)

\* variant: the keys are screened for unknown ones before any is decoded
ArgumentVisitor_visit_map_screened(ms) ==
    LET unknown == {i \in 1..Len(ms) : ms[i].key \notin {"rules", "value"}}
    IN IF unknown # {} THEN unknown_field(ms[SetMin(unknown)].key)
       ELSE ArgumentVisitor_next(ms, 1, None, None)

ArgumentVisitor_visit_map(ms) == ArgumentVisitor_next(ms, 1, None, None)

\* deserialize_any: a string goes to visit_str, an object to visit_map, and
\* every other kind to the visitor's default methods (invalid_type)
Argument_deserialize(raw) ==
    CASE raw.kind = "str" -> ArgumentVisitor_visit_str(raw.str)
      [] raw.kind = "obj" -> ArgumentVisitor_visit_map(raw.members)
      [] OTHER -> invalid_type

\* variant: the string is parsed as a JSON document when it is one
Argument_from_str_parsed(s) ==
    CASE s = "{\"rules\":[],\"value\":\"--demo\"}" -> Ok([rules |-> <<>>, values |-> <<"--demo">>])
      [] s = "[\"--demo\"]" -> invalid_type
      [] OTHER -> Ok([rules |-> <<>>, values |-> <<s>>])

\* mod.rs 67-76
Argument_from_str(s) == Ok([rules |-> <<>>, values |-> <<s>>])

Option_deserialize(ty, raw) ==
    IF raw.kind = "null" THEN Ok(None)
    ELSE LET v == Deserialize(ty, raw)
         IN IF ~v.ok THEN v ELSE Ok(Some(v.val[1]))

Deserialize(ty, raw) ==
    CASE ty.t = "String" -> String_deserialize(raw)
      [] ty.t = "u8" -> Unsigned_deserialize(raw, 8)
      [] ty.t = "u64" -> Unsigned_deserialize(raw, 64)
      [] ty.t = "bool" -> Bool_deserialize(raw)
      [] ty.t = "enum" -> Enum_deserialize(ty, raw)
      [] ty.t = "Option" -> Option_deserialize(ty.of, raw)
      [] ty.t = "Vec" -> IF raw.kind = "arr" THEN Vec_visit_seq(ty.of, raw.items, 1, <<>>)
                         ELSE invalid_type
      [] ty.t = "BTreeMap" -> IF raw.kind = "obj"
                              THEN BTreeMap_visit_map(ty.of, raw.members, 1, <<>>)
                              ELSE invalid_type
      [] ty.t = "struct" -> Struct_deserialize(ty, raw)
      [] ty.t = "Argument" -> Argument_deserialize(raw)
      [] ty.t = "ArrayOrStringHelper" -> ArrayOrStringHelper_deserialize(raw)

\* derived Serialize of a struct: every field, in declaration order, under
\* its wire name; None is written as null
Struct_serialize(st, v) ==
    JObj([i \in 1..Len(st.fields) |->
            Member(WireName(st, st.fields[i]), Serialize(st.fields[i].ty, v[st.fields[i].rust]))])

BTreeMap_serialize(ty, m) ==
    LET ks == SortedKeys(DOMAIN m)
    IN JObj([i \in 1..Len(ks) |-> Member(ks[i], Serialize(ty, m[ks[i]]))])

\* #[derive(Serialize)] on Argument (mod.rs 23): the struct as declared
Argument_serialize(a) == Struct_serialize(Argument_T, a)

Serialize(ty, v) ==
    CASE ty.t = "String" -> JStr(v)
      [] ty.t = "u8" -> JNum(v)
      [] ty.t = "u64" -> JNum(v)
      [] ty.t = "bool" -> JBool(v)
      [] ty.t = "enum" -> JStr(v)
      [] ty.t = "Option" -> IF v = None THEN JNull ELSE Serialize(ty.of, v[1])
      [] ty.t = "Vec" -> JArr([i \in 1..Len(v) |-> Serialize(ty.of, v[i])])
      [] ty.t = "BTreeMap" -> BTreeMap_serialize(ty.of, v)
      [] ty.t = "struct" -> Struct_serialize(ty, v)
      [] ty.t = "Argument" -> Argument_serialize(v)

(***************************************************************************)
(* Inputs.                                                                 *)
(***************************************************************************)
\* raw rules, as they occur in the documents of the tests (mod.rs 228, 351)
RawRuleDemo == JObj(<<Member("action", JStr("allow")),
                      Member("features", JObj(<<Member("is_demo_user", JBool(TRUE))>>))>>)
RawRuleOsx == JObj(<<Member("action", JStr("allow")),
                     Member("os", JObj(<<Member("name", JStr("osx"))>>))>>)

\* bare argument strings
ArgStrings ==
    {"", "--username", "--demo", "{\"rules\":[],\"value\":\"--demo\"}", "[\"--demo\"]"}
\* elements of raw "value" arrays
ValueStrings == {"--width", "--height"}

RawRulesChoices ==
    {JArr(<<>>), JArr(<<RawRuleDemo>>), JArr(<<RawRuleDemo, RawRuleOsx>>),
     JArr(<<RawRuleOsx, RawRuleDemo>>), JNum(854)}
RawStringArrays == {JArr([i \in 1..Len(q) |-> JStr(q[i])]) : q \in SeqUpTo(ValueStrings, MaxValues)}
RawValueChoices ==
    {JStr(""), JStr("--demo")} \cup RawStringArrays
        \cup {JArr(<<JStr("--width"), JNum(854)>>), JNum(854)}
\* members of raw argument objects
ArgMembers ==
    {Member("rules", r) : r \in RawRulesChoices}
        \cup {Member("value", v) : v \in RawValueChoices}
        \cup {Member("values", JArr(<<JStr("--demo")>>)), Member("conditions", JArr(<<>>))}
RawArguments ==
    {JStr(a) : a \in ArgStrings}
        \cup {JObj(ms) : ms \in SeqUpTo(ArgMembers, MaxMembers)}
        \cup {JNum(854), JNull, JBool(TRUE), JArr(<<JStr("--demo")>>)}
\* raw values handed to the normalizer
RawNormalizerInputs ==
    {JStr(a) : a \in ArgStrings} \cup RawValueChoices
        \cup {JNull, JBool(TRUE), JObj(<<>>), JArr(<<JNull>>)}

\* --- manifest values
RuleDemoV == [action |-> "allow", os |-> None, features |-> Some([is_demo_user |-> TRUE])]
RuleOsxV == [action |-> "allow", os |-> Some([name |-> Some("osx"), arch |-> None, version |-> None]),
             features |-> None]
ArgumentValues ==
    {[rules |-> <<>>, values |-> <<"--username">>],
     [rules |-> <<RuleDemoV>>, values |-> <<"--width", "--height">>]}
ArgumentsChoices ==
    {None} \cup {Some([game |-> g, jvm |-> j]) :
                    g \in SeqUpTo(ArgumentValues, MaxArgs), j \in SeqUpTo(ArgumentValues, MaxArgs)}
ArtifactV == [path |-> "ca/weblite/java-objc-bridge-1.1.jar", sha1 |-> "1227f9e0",
              size |-> 1330045, url |-> "https://libraries.minecraft.net/java-objc-bridge-1.1.jar"]
DownloadV == [sha1 |-> "265ca207", size |-> 24339738, url |-> "https://piston-data.mojang.com/client.jar"]
LibraryPlainV ==
    [downloads |-> Some([artifact |-> Some(ArtifactV), classifiers |-> None]),
     name |-> "ca.weblite:java-objc-bridge:1.1", extract |-> None, natives |-> None,
     rules |-> Some(<<RuleOsxV>>)]
LibraryNativeV ==
    [downloads |-> Some([artifact |-> None, classifiers |-> Some(("natives-linux" :> ArtifactV))]),
     name |-> "org.lwjgl:lwjgl-platform:2.9.4", extract |-> Some(("exclude" :> <<"META-INF/">>)),
     natives |-> Some([linux |-> Some("natives-linux"), osx |-> None, windows |-> None]),
     rules |-> None]
LoggingV ==
    [client |-> [argument |-> "-Dlog4j.configurationFile=${path}",
                 file |-> [id |-> "client-1.12.xml", sha1 |-> "bd65e7d2", size |-> 888,
                           url |-> "https://piston-data.mojang.com/client-1.12.xml"],
                 kind |-> "log4j2-xml"]]
Version_new(args, mcargs, libs, java, logging) ==
    [arguments |-> args, minecraft_arguments |-> mcargs,
     asset_index |-> [id |-> "11", sha1 |-> "1e62f8db", size |-> 426900, total_size |-> 623629518,
                      url |-> "https://piston-meta.mojang.com/11.json"],
     assets |-> "11", compliance_level |-> IF java = None THEN None ELSE Some(1),
     downloads |-> [client |-> DownloadV, client_mappings |-> Some(DownloadV), server |-> None,
                    server_mappings |-> None, windows_server |-> None],
     id |-> "23w45a", java_version |-> java, libraries |-> libs, logging |-> logging,
     main_class |-> "net.minecraft.client.main.Main", minimum_launcher_version |-> 21,
     release_time |-> "2023-11-08T13:59:58+00:00", time |-> "2023-11-08T14:05:12+00:00",
     kind |-> "snapshot"]
JavaChoices == {None, Some([component |-> "java-runtime-gamma", major_version |-> 17])}
LegacyChoices ==
    {None, Some("--username ${auth_player_name} --session ${auth_session}"),
     Some("  --username ${auth_player_name}  --session ${auth_session} ")}
LibrariesChoices == {<<>>, <<LibraryPlainV, LibraryNativeV>>}
LoggingChoices == {None, Some(LoggingV)}
Manifests ==
    {Version_new(a, m, l, j, g) : a \in ArgumentsChoices, m \in LegacyChoices,
                                  l \in LibrariesChoices, j \in JavaChoices, g \in LoggingChoices}

\* --- manifest documents as they are published (mod.rs 415): an absent
\* optional field is left out, an argument is a bare string or an object
\* with the keys rules and value
RECURSIVE Document(_, _)
Document_argument(a) ==
    IF a.rules = <<>> /\ Len(a.values) = 1 THEN JStr(a.values[1])
    ELSE JObj(<<Member("rules", Document(TVec(Rule_T), a.rules)),
                Member("value", IF Len(a.values) = 1 THEN JStr(a.values[1])
                                ELSE Document(TVec(TString), a.values))>>)
Document_struct(st, v) ==
    LET present(i) == ~(st.fields[i].ty.t = "Option" /\ v[st.fields[i].rust] = None)
        idx == SelectSeq([i \in 1..Len(st.fields) |-> i], present)
    IN JObj([k \in 1..Len(idx) |->
                Member(WireName(st, st.fields[idx[k]]),
                       Document(st.fields[idx[k]].ty, v[st.fields[idx[k]].rust]))])
Document(ty, v) ==
    CASE ty.t = "Option" -> IF v = None THEN JNull ELSE Document(ty.of, v[1])
      [] ty.t = "Vec" -> JArr([i \in 1..Len(v) |-> Document(ty.of, v[i])])
      [] ty.t = "BTreeMap" ->
            LET ks == SortedKeys(DOMAIN v)
            IN JObj([i \in 1..Len(ks) |-> Member(ks[i], Document(ty.of, v[ks[i]]))])
      [] ty.t = "struct" -> Document_struct(ty, v)
      [] ty.t = "Argument" -> Document_argument(v)
      [] OTHER -> Serialize(ty, v)

\* the documents obtained from raw (of type ty) by adding the member mem to
\* exactly one of its struct objects, at any position
RECURSIVE Inject(_, _, _)
Inject(ty, raw, mem) ==
    CASE ty.t = "Option" -> IF raw.kind = "null" THEN {} ELSE Inject(ty.of, raw, mem)
      [] ty.t = "Vec" /\ raw.kind = "arr" ->
            UNION {{JArr([raw.items EXCEPT ![i] = d]) : d \in Inject(ty.of, raw.items[i], mem)} :
                        i \in 1..Len(raw.items)}
      [] ty.t = "BTreeMap" /\ raw.kind = "obj" ->
            UNION {{JObj([raw.members EXCEPT ![i] = Member(raw.members[i].key, d)]) :
                            d \in Inject(ty.of, raw.members[i].val, mem)} :
                        i \in 1..Len(raw.members)}
      [] ty.t = "struct" /\ raw.kind = "obj" ->
            {JObj(InsertAt(raw.members, p, mem)) : p \in 1..(Len(raw.members) + 1)}
                \cup UNION {{JObj([raw.members EXCEPT ![i] = Member(raw.members[i].key, d)]) :
                                d \in Inject(ty.fields[FieldIndex(ty, raw.members[i].key)].ty,
                                             raw.members[i].val, mem)} :
                            i \in {j \in 1..Len(raw.members) : FieldIndex(ty, raw.members[j].key) # 0}}
      [] OTHER -> {}

\* the names of the struct types of which raw (of type ty) holds an object
\* with a key that is not one of the struct's fields
RECURSIVE UnknownKeySites(_, _)
UnknownKeySites(ty, raw) ==
    CASE ty.t = "Option" -> IF raw.kind = "null" THEN {} ELSE UnknownKeySites(ty.of, raw)
      [] ty.t = "Vec" /\ raw.kind = "arr" ->
            UNION {UnknownKeySites(ty.of, raw.items[i]) : i \in 1..Len(raw.items)}
      [] ty.t = "BTreeMap" /\ raw.kind = "obj" ->
            UNION {UnknownKeySites(ty.of, raw.members[i].val) : i \in 1..Len(raw.members)}
      [] ty.t = "struct" /\ raw.kind = "obj" ->
            (IF \E i \in 1..Len(raw.members) : FieldIndex(ty, raw.members[i].key) = 0
             THEN {ty.name} ELSE {})
                \cup UNION {UnknownKeySites(ty.fields[FieldIndex(ty, raw.members[i].key)].ty,
                                            raw.members[i].val) :
                                i \in {j \in 1..Len(raw.members) : FieldIndex(ty, raw.members[j].key) # 0}}
      [] OTHER -> {}

ArgumentsPublished ==
    Some([game |-> <<[rules |-> <<>>, values |-> <<"--username">>],
                     [rules |-> <<RuleDemoV>>, values |-> <<"--demo">>]>>,
          jvm |-> <<[rules |-> <<RuleOsxV>>, values |-> <<"--width", "--height">>]>>])
PublishedManifests ==
    {Version_new(a, m, <<LibraryPlainV, LibraryNativeV>>, j, g) :
        a \in {None, ArgumentsPublished}, m \in LegacyChoices, j \in JavaChoices,
        g \in LoggingChoices}
ValidDocuments == {Document(Version_T, m) : m \in PublishedManifests}
\* members that no struct of the crate declares
ExtraMembers ==
    {Member(k, v) : k \in {"inheritsFrom", "total_size"}, v \in {JNull, JStr("1.20.2")}}
\* the documents obtained from raw (of type ty) by replacing exactly one of
\* its elements (a scalar, an argument entry, a rules or value member) by a
\* raw value that its type does not accept
RECURSIVE Corrupt(_, _)
Corrupt_members(raw, i, ds) == {JObj([raw.members EXCEPT ![i] = Member(raw.members[i].key, d)]) : d \in ds}
Corrupt_argument(raw) ==
    IF raw.kind = "str" THEN {JNum(854), JArr(<<raw>>)}
    ELSE IF raw.kind # "obj" THEN {}
    ELSE UNION {Corrupt_members(raw, i,
                    IF raw.members[i].key = "rules"
                    THEN {JNull} \cup Corrupt(TVec(Rule_T), raw.members[i].val)
                    ELSE {JNum(854), JArr(<<JStr("--demo"), JNum(854)>>)}) :
                i \in 1..Len(raw.members)}
Corrupt(ty, raw) ==
    CASE ty.t = "String" -> {JNum(854)}
      [] ty.t = "u8" -> {JStr("17"), JNum(300)}
      [] ty.t = "u64" -> {JStr("17"), JNum(-1)}
      [] ty.t = "bool" -> {JStr("true")}
      [] ty.t = "enum" -> {JStr("maybe")}
      [] ty.t = "Option" -> IF raw.kind = "null" THEN {} ELSE Corrupt(ty.of, raw)
      [] ty.t = "Vec" /\ raw.kind = "arr" ->
            UNION {{JArr([raw.items EXCEPT ![i] = d]) : d \in Corrupt(ty.of, raw.items[i])} :
                        i \in 1..Len(raw.items)}
      [] ty.t = "BTreeMap" /\ raw.kind = "obj" ->
            UNION {Corrupt_members(raw, i, Corrupt(ty.of, raw.members[i].val)) :
                        i \in 1..Len(raw.members)}
      [] ty.t = "struct" /\ raw.kind = "obj" ->
            UNION {Corrupt_members(raw, i,
                        Corrupt(ty.fields[FieldIndex(ty, raw.members[i].key)].ty, raw.members[i].val)) :
                        i \in {j \in 1..Len(raw.members) : FieldIndex(ty, raw.members[j].key) # 0}}
      [] ty.t = "Argument" -> Corrupt_argument(raw)
      [] OTHER -> {}
\* the documents obtained from raw (of type ty) by leaving out exactly one
\* member whose field is an Option
RECURSIVE Omit(_, _)
Omit(ty, raw) ==
    CASE ty.t = "Option" -> IF raw.kind = "null" THEN {} ELSE Omit(ty.of, raw)
      [] ty.t = "Vec" /\ raw.kind = "arr" ->
            UNION {{JArr([raw.items EXCEPT ![i] = d]) : d \in Omit(ty.of, raw.items[i])} :
                        i \in 1..Len(raw.items)}
      [] ty.t = "struct" /\ raw.kind = "obj" ->
            LET known == {j \in 1..Len(raw.members) : FieldIndex(ty, raw.members[j].key) # 0}
                fty(i) == ty.fields[FieldIndex(ty, raw.members[i].key)].ty
            IN {JObj(SubSeq(raw.members, 1, i - 1) \o SubSeq(raw.members, i + 1, Len(raw.members))) :
                    i \in {j \in known : fty(j).t = "Option"}}
                \cup UNION {Corrupt_members(raw, i, Omit(fty(i), raw.members[i].val)) : i \in known}
      [] OTHER -> {}
\* the documents obtained from raw (of type ty) by spelling exactly one key
\* as the field is named in the model (total_size for totalSize, kind for
\* type) where the two differ
RECURSIVE Misspell(_, _)
Misspell(ty, raw) ==
    CASE ty.t = "Option" -> IF raw.kind = "null" THEN {} ELSE Misspell(ty.of, raw)
      [] ty.t = "Vec" /\ raw.kind = "arr" ->
            UNION {{JArr([raw.items EXCEPT ![i] = d]) : d \in Misspell(ty.of, raw.items[i])} :
                        i \in 1..Len(raw.items)}
      [] ty.t = "struct" /\ raw.kind = "obj" ->
            LET known == {j \in 1..Len(raw.members) : FieldIndex(ty, raw.members[j].key) # 0}
                f(i) == ty.fields[FieldIndex(ty, raw.members[i].key)]
            IN {JObj([raw.members EXCEPT ![i] = Member(f(i).rust, raw.members[i].val)]) :
                    i \in {j \in known : f(j).rust # raw.members[j].key}}
                \cup UNION {Corrupt_members(raw, i, Misspell(f(i).ty, raw.members[i].val)) : i \in known}
      [] OTHER -> {}
MisspeltDocuments == UNION {Misspell(Version_T, d) : d \in ValidDocuments}
OmitDocuments == UNION {Omit(Version_T, d) : d \in ValidDocuments}
CorruptDocuments == UNION {Corrupt(Version_T, d) : d \in ValidDocuments}

VersionDocuments ==
    ValidDocuments
        \cup UNION {Inject(Version_T, d, mem) : d \in ValidDocuments, mem \in ExtraMembers}
        \cup CorruptDocuments
        \cup OmitDocuments
        \cup MisspeltDocuments

(***************************************************************************)
(* Rule evaluation: evaluate(conditions, context) -> bool.  A condition is *)
(* a decoded Rule, a Context is [os_name, os_arch, os_version, features]   *)
(* with features the set of the enabled feature names.                     *)
(***************************************************************************)
\* the OS version patterns of the model and the version strings they match
OsVersionMatches == {<<"^10\\.", "10.15.7">>}
OsVersion_matches(pattern, version) == <<pattern, version>> \in OsVersionMatches

\* platform criteria: every specified sub-field agrees with the context
Os_matches(os, ctx) ==
    /\ os.name = None \/ os.name[1] = ctx.os_name
    /\ os.arch = None \/ os.arch[1] = ctx.os_arch
    /\ os.version = None \/ OsVersion_matches(os.version[1], ctx.os_version)

\* feature criteria: every named feature is required in the state it has in
\* the context, a feature that is not enabled being false
Features_match(features, ctx) ==
    \A name \in DOMAIN features : features[name] = (name \in ctx.features)

\* a condition without criteria always matches
Rule_matches(rule, ctx) ==
    /\ rule.os = None \/ Os_matches(rule.os[1], ctx)
    /\ rule.features = None \/ Features_match(rule.features[1], ctx)

RECURSIVE evaluate_from(_, _, _, _)
\* variant: the first matching condition decides
evaluate_from_first_match(rules, i, ctx, verdict) ==
    IF i > Len(rules) THEN verdict
    ELSE IF Rule_matches(rules[i], ctx) THEN rules[i].action = "allow"
    ELSE evaluate_from(rules, i + 1, ctx, verdict)

\* steps 3 and 4: each matching condition, in order, sets the verdict to its
\* action
evaluate_from(rules, i, ctx, verdict) ==
    IF i > Len(rules) THEN verdict
    ELSE evaluate_from(rules, i + 1, ctx,
            IF Rule_matches(rules[i], ctx) THEN rules[i].action = "allow" ELSE verdict)

\* variant: the verdict starts at allow
evaluate_default_allow(rules, ctx) == evaluate_from(rules, 1, ctx, TRUE)

\* variant: no special case for the empty list
evaluate_always_fold(rules, ctx) == evaluate_from(rules, 1, ctx, FALSE)

\* steps 1, 2 and 5: an empty list includes; otherwise the verdict starts at
\* deny
evaluate(rules, ctx) ==
    IF rules = <<>> THEN TRUE ELSE evaluate_from(rules, 1, ctx, FALSE)

\* --- contexts and condition lists of the model
FeatureNames == {"is_demo_user", "has_custom_resolution"}
Platforms ==
    {[os_name |-> "osx", os_arch |-> "x86_64", os_version |-> "10.15.7"],
     [os_name |-> "osx", os_arch |-> "arm64", os_version |-> "14.1"],
     [os_name |-> "linux", os_arch |-> "x86", os_version |-> "6.5.0"]}
Contexts ==
    {[os_name |-> p.os_name, os_arch |-> p.os_arch, os_version |-> p.os_version, features |-> f] :
        p \in Platforms, f \in SUBSET FeatureNames}
OsChoices ==
    {None,
     Some([name |-> Some("osx"), arch |-> None, version |-> Some("^10\\.")]),
     Some([name |-> Some("linux"), arch |-> Some("x86"), version |-> None])}
FeaturesChoices ==
    {None, Some([is_demo_user |-> TRUE]), Some([is_demo_user |-> FALSE]),
     Some([is_quick_play_singleplayer |-> TRUE])}
Rules ==
    {[action |-> a, os |-> o, features |-> f] :
        a \in {"allow", "deny"}, o \in OsChoices, f \in FeaturesChoices}
RuleLists == SeqUpTo(Rules, MaxRules)

(***************************************************************************)
(* Selection: select(entries, context) -> sequence of strings.             *)
(***************************************************************************)
RECURSIVE select_from(_, _, _, _)
\* variant: a value that is already in the output is not appended again
select_from_dedup(entries, i, ctx, out) ==
    IF i > Len(entries) THEN out
    ELSE select_from(entries, i + 1, ctx,
            IF evaluate(entries[i].rules, ctx)
            THEN out \o SelectSeq(entries[i].values,
                                  LAMBDA v : \A k \in 1..Len(out) : out[k] # v)
            ELSE out)

\* each entry in order: if its conditions evaluate to allow, its values are
\* appended to the output in their order
select_from(entries, i, ctx, out) ==
    IF i > Len(entries) THEN out
    ELSE select_from(entries, i + 1, ctx,
            IF evaluate(entries[i].rules, ctx) THEN out \o entries[i].values ELSE out)

select(entries, ctx) == select_from(entries, 1, ctx, <<>>)

\* --- conditional entries of the model: values shared between entries and
\* repeated within one entry
Entries ==
    {[rules |-> <<>>, values |-> <<"--username">>],
     [rules |-> <<RuleDemoV>>, values |-> <<"--demo", "--username">>],
     [rules |-> <<RuleOsxV>>, values |-> <<"--width", "--height">>],
     [rules |-> <<[action |-> "deny", os |-> None, features |-> None]>>, values |-> <<"--demo">>],
     [rules |-> <<>>, values |-> <<"--height", "--height">>]}
EntryLists == SeqUpTo(Entries, MaxEntries)

\* variant: a library without a rules field is taken as having no rule
\* that allows it
library_included_rules_required(library, ctx) ==
    library.rules # None /\ evaluate(library.rules[1], ctx)

\* absent conditions: always included
library_included(library, ctx) ==
    library.rules = None \/ evaluate(library.rules[1], ctx)

\* the same pattern as select, on the library list
select_libraries(libraries, ctx) ==
    SelectSeq(libraries, LAMBDA library : library_included(library, ctx))

\* --- libraries of the model
LibraryDeniedV == [LibraryPlainV EXCEPT !.name = "com.mojang:text2speech:1.17.9",
                       !.rules = Some(<<[action |-> "allow", os |-> None, features |-> None],
                                        [action |-> "deny", os |-> RuleOsxV.os, features |-> None]>>)]
Libraries == {LibraryPlainV, LibraryNativeV, LibraryDeniedV}
LibraryLists == SeqUpTo(Libraries, MaxLibraries)

(***************************************************************************)
(* The state machine.  Every entry point is a pure function of its         *)
(* argument: the initial state holds the argument (wire: a JSON document,  *)
(* or typed: an in-memory value), an action is one call of an entry point  *)
(* on it.  op names the entry point that ran last, result what it returned.*)
(* typed is <<>> or <<type name, value>>.                                  *)
(***************************************************************************)
Init ==
    /\ op = "start"
    /\ result = NoResult
    /\ \/ /\ typed = None
          /\ wire \in RawNormalizerInputs \cup RawArguments \cup VersionDocuments
       \/ /\ typed \in {<<"str", s>> : s \in ArgStrings}
          /\ wire = JNull
       \/ /\ typed \in {<<"Version", m>> : m \in Manifests}
          /\ wire = JNull
       \/ /\ typed \in {<<"select", [entries |-> es, ctx |-> c]>> : es \in EntryLists, c \in Contexts}
          /\ wire = JNull
       \/ /\ typed \in {<<"select_libraries", [libraries |-> ls, ctx |-> c]>> :
                            ls \in LibraryLists, c \in Contexts}
          /\ wire = JNull
       \/ /\ typed \in {<<"evaluate", [rules |-> rs, ctx |-> c]>> : rs \in RuleLists, c \in Contexts}
          /\ wire = JNull

\* serde_json::from_str::<ArrayOrStringHelper>(wire)
DeserializeArrayOrString ==
    /\ op = "start"
    /\ typed = None
    /\ wire \in RawNormalizerInputs
    /\ op' = "ArrayOrStringHelper::deserialize"
    /\ result' = ArrayOrStringHelper_deserialize(wire)
    /\ UNCHANGED <<typed, wire>>

\* serde_json::from_str::<Argument>(wire)
DeserializeArgument ==
    /\ op = "start"
    /\ typed = None
    /\ wire \in RawArguments
    /\ op' = "Argument::deserialize"
    /\ result' = Argument_deserialize(wire)
    /\ UNCHANGED <<typed, wire>>

\* Argument::from_str(s)
FromStr ==
    /\ op = "start"
    /\ typed # None
    /\ typed[1] = "str"
    /\ op' = "Argument::from_str"
    /\ result' = Argument_from_str(typed[2])
    /\ UNCHANGED <<typed, wire>>

\* serde_json::from_str::<Version>(wire)
DeserializeVersion ==
    /\ op = "start"
    /\ typed = None
    /\ wire \in VersionDocuments
    /\ op' = "Version::deserialize"
    /\ result' = Deserialize(Version_T, wire)
    /\ UNCHANGED <<typed, wire>>

\* serde_json::to_value(&version)
SerializeVersion ==
    /\ op = "start"
    /\ typed # None
    /\ typed[1] = "Version"
    /\ op' = "Version::serialize"
    /\ wire' = Serialize(Version_T, typed[2])
    /\ UNCHANGED <<typed, result>>

\* serde_json::from_value::<Version>(wire) on what was just written
DeserializeSerialized ==
    /\ op = "Version::serialize"
    /\ op' = "Version::deserialize(serialize)"
    /\ result' = Deserialize(Version_T, wire)
    /\ UNCHANGED <<typed, wire>>

\* evaluate(rules, ctx)
Evaluate ==
    /\ op = "start"
    /\ typed # None
    /\ typed[1] = "evaluate"
    /\ op' = "evaluate"
    /\ result' = Ok(evaluate(typed[2].rules, typed[2].ctx))
    /\ UNCHANGED <<typed, wire>>

\* evaluate(entry.rules, ctx) for the entry just decoded from wire
EvaluateDecoded ==
    /\ op = "Argument::deserialize"
    /\ result.ok
    /\ \E ctx \in Contexts :
        /\ typed' = <<"Context", ctx>>
        /\ result' = Ok(evaluate(result.val[1].rules, ctx))
    /\ op' = "evaluate(Argument::deserialize)"
    /\ UNCHANGED wire

\* select(entries, ctx)
Select ==
    /\ op = "start"
    /\ typed # None
    /\ typed[1] = "select"
    /\ op' = "select"
    /\ result' = Ok(select(typed[2].entries, typed[2].ctx))
    /\ UNCHANGED <<typed, wire>>

\* select_libraries(libraries, ctx)
SelectLibraries ==
    /\ op = "start"
    /\ typed # None
    /\ typed[1] = "select_libraries"
    /\ op' = "select_libraries"
    /\ result' = Ok(select_libraries(typed[2].libraries, typed[2].ctx))
    /\ UNCHANGED <<typed, wire>>

Next ==
    \/ DeserializeArrayOrString
    \/ DeserializeArgument
    \/ FromStr
    \/ DeserializeVersion
    \/ SerializeVersion
    \/ DeserializeSerialized
    \/ Evaluate
    \/ EvaluateDecoded
    \/ Select
    \/ SelectLibraries

Spec == Init /\ [][Next]_vars

(***************************************************************************)
(* Vocabulary of the properties.                                           *)
(***************************************************************************)
ArgumentRun == op = "Argument::deserialize"
\* the argument decoder ran on an object
ObjectForm == ArgumentRun /\ wire.kind = "obj"
NormalizerRun == op = "ArrayOrStringHelper::deserialize"
VersionRun == op = "Version::deserialize"
RoundTripRun == op = "Version::deserialize(serialize)"
\* the raw value of the first member of ms with key k
RawOf(ms, k) == ms[FirstIndex(ms, k)].val
\* the strings of a raw array of strings
StringsOf(raw) == [i \in 1..Len(raw.items) |-> raw.items[i].str]
IsStringArray(raw) == raw.kind = "arr" /\ \A i \in 1..Len(raw.items) : raw.items[i].kind = "str"
\* a raw value the normalizer is specified to accept
IsScalarOrStrings(raw) == raw.kind = "str" \/ IsStringArray(raw)
\* a raw rules value that decodes
IsRuleArray(raw) ==
    raw.kind = "arr" /\ \A i \in 1..Len(raw.items) : Deserialize(Rule_T, raw.items[i]).ok

\* what is wrong with the i-th member of a raw argument object, looking only
\* at the members up to it ("" when nothing is)
Offence(ms, i) ==
    IF ms[i].key \notin {"rules", "value"} THEN "UnknownField"
    ELSE IF \E j \in 1..(i-1) : ms[j].key = ms[i].key THEN "DuplicateField"
    ELSE IF ms[i].key = "rules" /\ ~IsRuleArray(ms[i].val) THEN "Undecodable"
    ELSE IF ms[i].key = "value" /\ ~IsScalarOrStrings(ms[i].val) THEN "Undecodable"
    ELSE ""
\* position of the first offending member in document order (0: none)
FirstOffence(ms) ==
    LET bad == {i \in 1..Len(ms) : Offence(ms, i) # ""}
    IN IF bad = {} THEN 0 ELSE SetMin(bad)
FirstOffenceKind(ms) == IF FirstOffence(ms) = 0 THEN "" ELSE Offence(ms, FirstOffence(ms))

(***************************************************************************)
(* C1.                                                                     *)
(***************************************************************************)
\* C1: decoding the encoding of a manifest succeeds and gives the manifest
\* back, also when its game or jvm argument list is not empty.
C1_RoundTrip ==
    RoundTripRun => (result.ok /\ result.val = Some(typed[2]))

(***************************************************************************)
(* C2.                                                                     *)
(***************************************************************************)
\* C2 as stated: every accepted argument has at least one value.
C2_ValuesNonEmpty ==
    (ArgumentRun /\ result.ok) => Len(result.val[1].values) >= 1

\* C2 as amended: an accepted argument has exactly one value when it was a
\* bare string or an object with a scalar value, and as many values as the
\* raw sequence has elements otherwise (none for the empty sequence).
C2_ValuesCount ==
    (ArgumentRun /\ result.ok) =>
        IF wire.kind = "str" THEN Len(result.val[1].values) = 1
        ELSE LET v == RawOf(wire.members, "value")
             IN IF v.kind = "str" THEN Len(result.val[1].values) = 1
                ELSE Len(result.val[1].values) = Len(v.items)

C2_Witness ==
    /\ ObjectForm
    /\ result.ok
    /\ "value" \in Keys(wire.members)
    /\ RawOf(wire.members, "value").kind = "arr"
    /\ Len(RawOf(wire.members, "value").items) = 2
    /\ Len(result.val[1].values) = 2

(***************************************************************************)
(* C3, C4.                                                                 *)
(***************************************************************************)
\* the object types the strictness rule is stated for
StrictTypes ==
    {"Version", "AssetIndex", "Downloads", "Download", "JavaVersion", "Arguments",
     "Library", "library::Downloads", "Artifact", "Natives"}

\* C3: a key that its object type does not declare, in any of the object
\* types of the manifest, makes the decode fail with UnknownField.
C3_StrictEverywhere ==
    (VersionRun /\ UnknownKeySites(Version_T, wire) \cap StrictTypes # {}) =>
        (~result.ok /\ result.err = "UnknownField")

\* the top-level members of the document whose key is not a manifest field
ExtraTopLevel == {i \in 1..Len(wire.members) : FieldIndex(Version_T, wire.members[i].key) = 0}
WithoutMember(ms, i) == SubSeq(ms, 1, i - 1) \o SubSeq(ms, i + 1, Len(ms))

\* C4: a valid manifest document decodes, and with one extra unrecognised
\* top-level key, whatever its name, value and position, it fails with
\* UnknownField (naming the key) and yields no manifest.
C4_ExtraTopLevelKey ==
    VersionRun =>
        /\ wire \in ValidDocuments => result.ok
        /\ \A i \in ExtraTopLevel :
                JObj(WithoutMember(wire.members, i)) \in ValidDocuments =>
                    /\ ~result.ok
                    /\ result.val = None
                    /\ result.err = "UnknownField"
                    /\ result.field = wire.members[i].key

C4_Witness ==
    /\ VersionRun
    /\ \E i \in ExtraTopLevel :
            /\ i > 1
            /\ wire.members[i].key = "inheritsFrom"
            /\ JObj(WithoutMember(wire.members, i)) \in ValidDocuments
    /\ result.err = "UnknownField"

(***************************************************************************)
(* C5, C6.                                                                 *)
(***************************************************************************)
\* C5: a bare string s decodes to the entry with no rules and the single
\* value s.
C5_BareString ==
    (ArgumentRun /\ wire.kind = "str") =>
        result = Ok([rules |-> <<>>, values |-> <<wire.str>>])

C5_Witness ==
    /\ ArgumentRun
    /\ wire = JStr("--username")
    /\ result.ok
    /\ result.val[1].values = <<"--username">>
    /\ result.val[1].rules = <<>>

\* the object has the keys rules and value, once each, and nothing else
ExactlyRulesAndValue(ms) == Len(ms) = 2 /\ Keys(ms) = {"rules", "value"}

\* C6: an object with exactly the keys rules and value decodes to the entry
\* whose rules are the decoded raw rules in their order (none for an empty
\* list) and whose values are [v] for a scalar value v and the strings of
\* the sequence, in order, for a sequence; this in either key order.
C6_ObjectForm ==
    (ObjectForm /\ ExactlyRulesAndValue(wire.members)) =>
        LET r == RawOf(wire.members, "rules")
            v == RawOf(wire.members, "value")
        IN IF IsRuleArray(r) /\ IsScalarOrStrings(v)
           THEN /\ result.ok
                /\ Len(result.val[1].rules) = Len(r.items)
                /\ \A i \in 1..Len(r.items) :
                        result.val[1].rules[i] = Deserialize(Rule_T, r.items[i]).val[1]
                /\ result.val[1].values = IF v.kind = "str" THEN <<v.str>> ELSE StringsOf(v)
           ELSE ~result.ok

C6_Witness ==
    /\ ObjectForm
    /\ ExactlyRulesAndValue(wire.members)
    /\ RawOf(wire.members, "rules") = JArr(<<RawRuleOsx, RawRuleDemo>>)
    /\ RawOf(wire.members, "value").kind = "arr"
    /\ Len(RawOf(wire.members, "value").items) = 2
    /\ result.ok
    /\ result.val[1].rules = <<RuleOsxV, RuleDemoV>>
    /\ result.val[1].values = <<"--height", "--width">>

(***************************************************************************)
(* C7, C8, C9: the error cases of the object form.                         *)
(***************************************************************************)
MissingKeys(ms) == {"rules", "value"} \ Keys(ms)
RepeatedKeys(ms) == {k \in {"rules", "value"} : Occurrences(ms, k) > 1}
UnknownKeys(ms) == Keys(ms) \ {"rules", "value"}

\* C7 as stated: an object without rules or without value fails with
\* MissingField.
C7_MissingField ==
    (ObjectForm /\ MissingKeys(wire.members) # {}) =>
        (~result.ok /\ result.err = "MissingField")

\* C7 as amended: an object without rules or without value is never
\* accepted and yields no entry; the error is MissingField, naming a key
\* that is absent, exactly when no key that is present is offending
\* (unknown, repeated or with a value that does not decode).
C7_NeverPartial ==
    (ObjectForm /\ MissingKeys(wire.members) # {}) =>
        /\ ~result.ok
        /\ result.val = None
        /\ (result.err = "MissingField") <=> (FirstOffence(wire.members) = 0)
        /\ result.err = "MissingField" => result.field \in MissingKeys(wire.members)

C7_Witness ==
    /\ ObjectForm
    /\ Keys(wire.members) = {"value"}
    /\ FirstOffence(wire.members) = 0
    /\ result = missing_field("rules")

\* C8 as stated: an object with a second rules or a second value fails
\* with DuplicateField.
C8_DuplicateField ==
    (ObjectForm /\ RepeatedKeys(wire.members) # {}) =>
        (~result.ok /\ result.err = "DuplicateField")

\* C8 as amended: an object with a second rules or a second value is never
\* accepted; the error is DuplicateField, naming the repeated key, exactly
\* when the second occurrence is the first offending member in document
\* order.
C8_NeverOverwrites ==
    (ObjectForm /\ RepeatedKeys(wire.members) # {}) =>
        /\ ~result.ok
        /\ result.val = None
        /\ (result.err = "DuplicateField") <=> (FirstOffenceKind(wire.members) = "DuplicateField")
        /\ result.err = "DuplicateField" =>
                result.field = wire.members[FirstOffence(wire.members)].key

C8_Witness ==
    /\ ObjectForm
    /\ Len(wire.members) = 3
    /\ wire.members[1] = Member("value", JStr("--demo"))
    /\ wire.members[2].key = "rules"
    /\ wire.members[3].key = "value"
    /\ wire.members[3].val # wire.members[1].val
    /\ result = duplicate_field("value")

\* C9 as stated: an object with a key other than rules and value fails with
\* UnknownField.
C9_UnknownField ==
    (ObjectForm /\ UnknownKeys(wire.members) # {}) =>
        (~result.ok /\ result.err = "UnknownField")

\* C9 as amended: an object with a key other than rules and value is never
\* accepted, also when rules and value are present and valid; the error is
\* UnknownField, naming that key, exactly when the key is the first
\* offending member in document order.
C9_NeverIgnored ==
    (ObjectForm /\ UnknownKeys(wire.members) # {}) =>
        /\ ~result.ok
        /\ result.val = None
        /\ (result.err = "UnknownField") <=> (FirstOffenceKind(wire.members) = "UnknownField")
        /\ result.err = "UnknownField" =>
                result.field = wire.members[FirstOffence(wire.members)].key

C9_Witness ==
    /\ ObjectForm
    /\ Len(wire.members) = 3
    /\ wire.members[1] = Member("rules", JArr(<<>>))
    /\ wire.members[2] = Member("value", JStr("--demo"))
    /\ wire.members[3].key = "values"
    /\ result = unknown_field("values")

(***************************************************************************)
(* C10.                                                                    *)
(***************************************************************************)
\* C10: the normalizer turns a single string s, the empty string included,
\* into the one-element sequence [s].
C10_ScalarToSingleton ==
    (NormalizerRun /\ wire.kind = "str") =>
        /\ result.ok
        /\ Len(result.val[1]) = 1
        /\ result.val[1][1] = wire.str

C10_Witness ==
    /\ NormalizerRun
    /\ wire = JStr("")
    /\ result.ok
    /\ result.val[1] = <<"">>

(***************************************************************************)
(* C11, C12.                                                               *)
(***************************************************************************)
\* C11: the normalizer returns a sequence of strings as it is: the same
\* length and the same strings at the same positions.
C11_SequenceUnchanged ==
    (NormalizerRun /\ IsStringArray(wire)) =>
        /\ result.ok
        /\ Len(result.val[1]) = Len(wire.items)
        /\ \A i \in 1..Len(wire.items) : result.val[1][i] = wire.items[i].str

C11_Witness ==
    /\ NormalizerRun
    /\ wire = JArr(<<JStr("--width"), JStr("--height")>>)
    /\ result.ok
    /\ result.val[1] = <<"--width", "--height">>

\* C12: the normalizer rejects with TypeMismatch, and returns no sequence
\* for, a number, a boolean, null, an object and a sequence with an element
\* that is not a string.
C12_TypeMismatch ==
    (NormalizerRun /\ ~IsScalarOrStrings(wire)) =>
        /\ ~result.ok
        /\ result.val = None
        /\ result.err = "TypeMismatch"

\* the rejected shapes all occur: here the sequence that starts with a string
C12_Witness ==
    /\ NormalizerRun
    /\ wire = JArr(<<JStr("--width"), JNum(854)>>)
    /\ result = invalid_type

(***************************************************************************)
(* C13.                                                                    *)
(***************************************************************************)
\* raw (of type ty) has a nested element, at any depth, that on its own
\* fails to decode as the type the schema gives it
RECURSIVE PartFails(_, _)
ElementFails(ty, raw) == ~Deserialize(ty, raw).ok \/ PartFails(ty, raw)
PartFails(ty, raw) ==
    CASE ty.t = "Option" -> raw.kind # "null" /\ PartFails(ty.of, raw)
      [] ty.t = "Vec" /\ raw.kind = "arr" ->
            \E i \in 1..Len(raw.items) : ElementFails(ty.of, raw.items[i])
      [] ty.t = "BTreeMap" /\ raw.kind = "obj" ->
            \E i \in 1..Len(raw.members) : ElementFails(ty.of, raw.members[i].val)
      [] ty.t = "struct" /\ raw.kind = "obj" ->
            \E i \in 1..Len(raw.members) :
                /\ FieldIndex(ty, raw.members[i].key) # 0
                /\ ElementFails(ty.fields[FieldIndex(ty, raw.members[i].key)].ty, raw.members[i].val)
      [] ty.t = "Argument" /\ raw.kind = "obj" ->
            \E i \in 1..Len(raw.members) :
                \/ raw.members[i].key = "rules" /\ ElementFails(TVec(Rule_T), raw.members[i].val)
                \/ raw.members[i].key = "value"
                        /\ ElementFails(TArrayOrStringHelper, raw.members[i].val)
      [] ty.t = "ArrayOrStringHelper" /\ raw.kind = "arr" ->
            \E i \in 1..Len(raw.items) : ElementFails(TString, raw.items[i])
      [] OTHER -> FALSE

\* C13: when a nested element of the document fails to decode (an argument
\* entry, a rule, a library, a download, a scalar field), decoding the
\* manifest returns an error and no manifest.
C13_AllOrNothing ==
    (VersionRun /\ (wire \in CorruptDocuments \/ PartFails(Version_T, wire))) =>
        (~result.ok /\ result.val = None)

\* the first game argument is a number
C13_Witness ==
    /\ VersionRun
    /\ wire \in CorruptDocuments
    /\ "arguments" \in Keys(wire.members)
    /\ RawOf(RawOf(wire.members, "arguments").members, "game").items[1].kind = "num"
    /\ PartFails(Version_T, wire)
    /\ result = invalid_type

(***************************************************************************)
(* C14.                                                                    *)
(***************************************************************************)
\* the optional fields, by the name of the struct and the key on the wire
OptionalKeys(name) ==
    CASE name = "Version" ->
            {"arguments", "minecraftArguments", "complianceLevel", "javaVersion", "logging"}
      [] name = "Library" -> {"downloads", "extract", "natives", "rules"}
      [] name = "Downloads" -> {"client_mappings", "server", "server_mappings", "windows_server"}
      [] OTHER -> {}

\* in the value v decoded from raw (of type ty), every optional field whose
\* key raw does not have is None
RECURSIVE AbsentAreNone(_, _, _)
AbsentAreNone(ty, raw, v) ==
    CASE ty.t = "Option" -> raw.kind = "null" \/ (v # None /\ AbsentAreNone(ty.of, raw, v[1]))
      [] ty.t = "Vec" /\ raw.kind = "arr" ->
            \A i \in 1..Len(raw.items) : AbsentAreNone(ty.of, raw.items[i], v[i])
      [] ty.t = "struct" /\ raw.kind = "obj" ->
            /\ \A k \in OptionalKeys(ty.name) \ Keys(raw.members) :
                    /\ FieldIndex(ty, k) # 0
                    /\ v[ty.fields[FieldIndex(ty, k)].rust] = None
            /\ \A i \in 1..Len(raw.members) :
                    FieldIndex(ty, raw.members[i].key) # 0 =>
                        AbsentAreNone(ty.fields[FieldIndex(ty, raw.members[i].key)].ty,
                                      raw.members[i].val,
                                      v[ty.fields[FieldIndex(ty, raw.members[i].key)].rust])
      [] OTHER -> TRUE

\* the struct objects in raw (of type ty) that lack optional key k of struct name
RECURSIVE LacksKey(_, _, _, _)
LacksKey(ty, raw, name, k) ==
    CASE ty.t = "Option" -> raw.kind # "null" /\ LacksKey(ty.of, raw, name, k)
      [] ty.t = "Vec" /\ raw.kind = "arr" ->
            \E i \in 1..Len(raw.items) : LacksKey(ty.of, raw.items[i], name, k)
      [] ty.t = "struct" /\ raw.kind = "obj" ->
            \/ ty.name = name /\ k \notin Keys(raw.members)
            \/ \E i \in 1..Len(raw.members) :
                    /\ FieldIndex(ty, raw.members[i].key) # 0
                    /\ LacksKey(ty.fields[FieldIndex(ty, raw.members[i].key)].ty,
                                raw.members[i].val, name, k)
      [] OTHER -> FALSE

\* C14: a document that lacks optional fields, and is valid otherwise,
\* decodes, and each of these fields is None in the manifest (not Some of
\* an empty list, of an empty string or of 0).
C14_AbsentIsNone ==
    (VersionRun /\ wire \in ValidDocuments \cup OmitDocuments) =>
        /\ result.ok
        /\ AbsentAreNone(Version_T, wire, result.val[1])

\* a library without the key downloads
C14_Witness ==
    /\ VersionRun
    /\ wire \in OmitDocuments
    /\ LacksKey(Version_T, wire, "Library", "downloads")
    /\ LacksKey(Version_T, wire, "Downloads", "server")
    /\ result.ok
    /\ \E i \in 1..Len(result.val[1].libraries) : result.val[1].libraries[i].downloads = None
    /\ result.val[1].downloads.server = None

(***************************************************************************)
(* C15.                                                                    *)
(***************************************************************************)
\* the keys whose spelling differs from the name of the field in the model
ExactKeys ==
    {"assetIndex", "totalSize", "complianceLevel", "javaVersion", "majorVersion", "mainClass",
     "minimumLauncherVersion", "releaseTime", "type"}

\* C15: the fields of the manifest are filled from the members with exactly
\* the keys assetIndex, totalSize, complianceLevel, javaVersion,
\* majorVersion, mainClass, minimumLauncherVersion, releaseTime and type,
\* and a document with one of them spelt as in the model (asset_index,
\* total_size, kind) is rejected as having an unknown field.
C15_ExactKeys ==
    VersionRun =>
        /\ wire \in MisspeltDocuments => (~result.ok /\ result.err = "UnknownField")
        /\ wire \in ValidDocuments =>
            LET ms == wire.members
                v == result.val[1]
            IN /\ result.ok
               /\ v.asset_index.id = RawOf(RawOf(ms, "assetIndex").members, "id").str
               /\ v.asset_index.total_size = RawOf(RawOf(ms, "assetIndex").members, "totalSize").num
               /\ v.main_class = RawOf(ms, "mainClass").str
               /\ v.minimum_launcher_version = RawOf(ms, "minimumLauncherVersion").num
               /\ v.release_time = RawOf(ms, "releaseTime").str
               /\ v.kind = RawOf(ms, "type").str
               /\ v.compliance_level =
                    IF "complianceLevel" \in Keys(ms) THEN Some(RawOf(ms, "complianceLevel").num)
                    ELSE None
               /\ IF "javaVersion" \in Keys(ms)
                  THEN /\ v.java_version # None
                       /\ v.java_version[1].major_version =
                            RawOf(RawOf(ms, "javaVersion").members, "majorVersion").num
                  ELSE v.java_version = None

\* every one of the nine keys is misspelt in some document of the model
C15_Witness ==
    /\ VersionRun
    /\ wire \in MisspeltDocuments
    /\ "assetIndex" \in Keys(wire.members)
    /\ "total_size" \in Keys(RawOf(wire.members, "assetIndex").members)
    /\ result = unknown_field("total_size")

(***************************************************************************)
(* C16.                                                                    *)
(***************************************************************************)
\* the document without its top-level member k (the document itself when it
\* has none)
WithoutKey(raw, k) ==
    IF k \in Keys(raw.members) THEN JObj(WithoutMember(raw.members, FirstIndex(raw.members, k)))
    ELSE raw

\* C16: the string under minecraftArguments is the decoded
\* minecraft_arguments, character for character, with and without an
\* arguments object in the document; arguments is the decoding of its own
\* member; and taking either member out of the document leaves the decoded
\* value of the other as it was.
C16_LegacyPreserved ==
    (VersionRun /\ wire \in ValidDocuments) =>
        LET ms == wire.members
            v == result.val[1]
            noArgs == Deserialize(Version_T, WithoutKey(wire, "arguments"))
            noLegacy == Deserialize(Version_T, WithoutKey(wire, "minecraftArguments"))
        IN /\ result.ok
           /\ v.minecraft_arguments =
                IF "minecraftArguments" \in Keys(ms) THEN Some(RawOf(ms, "minecraftArguments").str)
                ELSE None
           /\ v.arguments =
                IF "arguments" \in Keys(ms)
                THEN Some(Deserialize(Arguments_T, RawOf(ms, "arguments")).val[1])
                ELSE None
           /\ noArgs.ok /\ noArgs.val[1].minecraft_arguments = v.minecraft_arguments
           /\ noLegacy.ok /\ noLegacy.val[1].arguments = v.arguments

\* a document with both members, the legacy string with leading, doubled and
\* trailing blanks
C16_Witness ==
    /\ VersionRun
    /\ wire \in ValidDocuments
    /\ {"arguments", "minecraftArguments"} \subseteq Keys(wire.members)
    /\ result.ok
    /\ result.val[1].arguments # None
    /\ result.val[1].minecraft_arguments =
            Some("  --username ${auth_player_name}  --session ${auth_session} ")

(***************************************************************************)
(* C17 - C20: rule evaluation.                                             *)
(***************************************************************************)
EvaluateRun == op = "evaluate"
\* the positions of the conditions of rules that match ctx
Matching(rules, ctx) == {i \in 1..Len(rules) : Rule_matches(rules[i], ctx)}
SetMax(S) == CHOOSE x \in S : \A y \in S : y <= x

\* C17: when some condition of the list matches the context, the verdict is
\* the action of the last matching one, whatever matched before it: deny
\* then allow, both matching, includes; allow then deny, both matching,
\* excludes.
C17_LastMatchWins ==
    EvaluateRun =>
        LET rules == typed[2].rules
            ctx == typed[2].ctx
            m == Matching(rules, ctx)
        IN /\ m # {} => result = Ok(rules[SetMax(m)].action = "allow")
           /\ (m = {1, 2} /\ rules[1].action = "deny" /\ rules[2].action = "allow") => result = Ok(TRUE)
           /\ (m = {1, 2} /\ rules[1].action = "allow" /\ rules[2].action = "deny") => result = Ok(FALSE)

\* deny then allow, both matching on different criteria
C17_Witness ==
    /\ EvaluateRun
    /\ Len(typed[2].rules) = 2
    /\ Matching(typed[2].rules, typed[2].ctx) = {1, 2}
    /\ typed[2].rules[1].action = "deny"
    /\ typed[2].rules[1].os # None
    /\ typed[2].rules[2].action = "allow"
    /\ typed[2].rules[2].features # None
    /\ result = Ok(TRUE)

\* C18: a list that is not empty and none of whose conditions matches the
\* context yields deny, whatever the actions of its conditions.
C18_NoMatchDenies ==
    (EvaluateRun /\ typed[2].rules # <<>> /\ Matching(typed[2].rules, typed[2].ctx) = {}) =>
        result = Ok(FALSE)

\* allow then deny, neither matching
C18_Witness ==
    /\ EvaluateRun
    /\ Len(typed[2].rules) = 2
    /\ Matching(typed[2].rules, typed[2].ctx) = {}
    /\ typed[2].rules[1].action = "allow"
    /\ typed[2].rules[2].action = "deny"
    /\ result = Ok(FALSE)

\* C19: the empty list includes, in every context.
C19_EmptyIncludes ==
    (EvaluateRun /\ typed[2].rules = <<>>) => result = Ok(TRUE)

\* the empty list under a context with features enabled
C19_Witness ==
    /\ EvaluateRun
    /\ typed[2].rules = <<>>
    /\ typed[2].ctx.os_name = "linux"
    /\ typed[2].ctx.features = FeatureNames
    /\ result = Ok(TRUE)

EvaluateDecodedRun == op = "evaluate(Argument::deserialize)"
\* {"rules":[{"action":"allow","features":{"is_demo_user":true}}],"value":"--demo"}
DemoEntry == JObj(<<Member("rules", JArr(<<RawRuleDemo>>)), Member("value", JStr("--demo"))>>)

\* C20: a single condition with feature criteria only matches, and so gives
\* its action as the verdict, exactly when every feature it names is
\* required in the state it has in the context, a feature that is not
\* enabled counting as false; the entry decoded from DemoEntry is included
\* exactly when is_demo_user is enabled; a condition requiring a feature
\* name unknown to the context does not match; and evaluation always yields
\* a verdict, never an error.
C20_FeatureCriteria ==
    /\ EvaluateRun =>
        LET rules == typed[2].rules
            ctx == typed[2].ctx
        IN /\ result.ok
           /\ (Len(rules) = 1 /\ rules[1].os = None /\ rules[1].features # None) =>
                LET f == rules[1].features[1]
                    agree == \A name \in DOMAIN f : f[name] = (name \in ctx.features)
                IN /\ result.val[1] = (agree /\ rules[1].action = "allow")
                   /\ (\E name \in DOMAIN f : name \notin FeatureNames /\ f[name]) =>
                        (~agree /\ result.val[1] = FALSE)
    /\ EvaluateDecodedRun =>
        /\ result.ok
        /\ wire = DemoEntry => result = Ok("is_demo_user" \in typed[2].features)

\* the decoded entry is included under one context and excluded under
\* another one
C20_Witness ==
    /\ EvaluateDecodedRun
    /\ wire = DemoEntry
    /\ typed[2].features = {"is_demo_user"}
    /\ result = Ok(TRUE)

C20_WitnessExcluded ==
    /\ EvaluateDecodedRun
    /\ wire = DemoEntry
    /\ typed[2].features = {"has_custom_resolution"}
    /\ result = Ok(FALSE)

C20_WitnessUnknown ==
    /\ EvaluateRun
    /\ Len(typed[2].rules) = 1
    /\ typed[2].rules[1] = [action |-> "allow", os |-> None,
                            features |-> Some([is_quick_play_singleplayer |-> TRUE])]
    /\ result = Ok(FALSE)

(***************************************************************************)
(* C21.                                                                    *)
(***************************************************************************)
SelectRun == op = "select"
Included(entry, ctx) == evaluate(entry.rules, ctx)
\* the values of the included entries among the first n, entry after entry
RECURSIVE ValuesOfIncluded(_, _, _)
ValuesOfIncluded(entries, n, ctx) ==
    IF n = 0 THEN <<>>
    ELSE ValuesOfIncluded(entries, n - 1, ctx)
            \o (IF Included(entries[n], ctx) THEN entries[n].values ELSE <<>>)

\* C21: the output of select is the values of the included entries, entry
\* after entry in list order and each entry's values in their own order:
\* nothing of an excluded entry, everything of an included one, repeated
\* values repeated; for three entries with only the second excluded it is
\* the values of the first followed by those of the third.
C21_SelectInOrder ==
    SelectRun =>
        LET es == typed[2].entries
            ctx == typed[2].ctx
        IN /\ result = Ok(ValuesOfIncluded(es, Len(es), ctx))
           /\ (Len(es) = 3 /\ Included(es[1], ctx) /\ ~Included(es[2], ctx) /\ Included(es[3], ctx)) =>
                result.val[1] = es[1].values \o es[3].values

\* three entries, the second excluded, the third repeating a value of the
\* first
C21_Witness ==
    /\ SelectRun
    /\ Len(typed[2].entries) = 3
    /\ Included(typed[2].entries[1], typed[2].ctx)
    /\ ~Included(typed[2].entries[2], typed[2].ctx)
    /\ Included(typed[2].entries[3], typed[2].ctx)
    /\ result = Ok(<<"--demo", "--username", "--username">>)

(***************************************************************************)
(* C22.                                                                    *)
(***************************************************************************)
SelectLibrariesRun == op = "select_libraries"
\* the library has no rules field, or its rules evaluate to allow
Applies(library, ctx) ==
    IF library.rules = None THEN TRUE ELSE evaluate(library.rules[1], ctx)
\* the positions of the list whose library applies, in ascending order
RECURSIVE Applying(_, _, _)
Applying(libraries, n, ctx) ==
    IF n = 0 THEN <<>>
    ELSE Applying(libraries, n - 1, ctx)
            \o (IF Applies(libraries[n], ctx) THEN <<n>> ELSE <<>>)

\* C22: the filtered library list is, in list order, exactly the libraries
\* without a rules field and those whose rules evaluate to allow; a library
\* without rules is always kept, and one whose only rule allows os name osx
\* is dropped when the os name of the context is linux.
C22_LibraryFilter ==
    SelectLibrariesRun =>
        LET ls == typed[2].libraries
            ctx == typed[2].ctx
            keep == Applying(ls, Len(ls), ctx)
            out == result.val[1]
        IN /\ result.ok
           /\ out = [k \in 1..Len(keep) |-> ls[keep[k]]]
           /\ \A i \in 1..Len(ls) : ls[i].rules = None => \E k \in 1..Len(out) : out[k] = ls[i]
           /\ ctx.os_name = "linux" => \A k \in 1..Len(out) : out[k] # LibraryPlainV

\* under linux the library for osx is dropped from between two kept ones
C22_Witness ==
    /\ SelectLibrariesRun
    /\ typed[2].ctx.os_name = "linux"
    /\ typed[2].libraries = <<LibraryNativeV, LibraryPlainV, LibraryDeniedV>>
    /\ result = Ok(<<LibraryNativeV, LibraryDeniedV>>)

(***************************************************************************)
(* C23.                                                                    *)
(***************************************************************************)
\* the two-member object with its members in the other order
Swapped(raw) == JObj(<<raw.members[2], raw.members[1]>>)

\* C23: an object with the keys rules and value decodes to the same entry
\* with value first as with rules first, and fails in one order exactly
\* when it fails in the other.
C23_KeyOrder ==
    (ObjectForm /\ ExactlyRulesAndValue(wire.members)) =>
        LET other == Argument_deserialize(Swapped(wire))
        IN /\ result.ok <=> other.ok
           /\ result.ok => result.val = other.val

\* value before rules, with two rules and two values
C23_Witness ==
    /\ ObjectForm
    /\ wire.members = <<Member("value", JArr(<<JStr("--width"), JStr("--height")>>)),
                        Member("rules", JArr(<<RawRuleDemo, RawRuleOsx>>))>>
    /\ result = Ok([rules |-> <<RuleDemoV, RuleOsxV>>, values |-> <<"--width", "--height">>])

\* an object that fails in both orders, with different errors
C23_WitnessFails ==
    /\ ObjectForm
    /\ wire.members = <<Member("value", JNum(854)), Member("rules", JNum(854))>>
    /\ ~result.ok
    /\ ~Argument_deserialize(Swapped(wire)).ok

(***************************************************************************)
(* C24.                                                                    *)
(***************************************************************************)
\* what decoding the value of the i-th member alone returns
MemberDecoded(ms, i) ==
    IF ms[i].key = "rules" THEN Deserialize(TVec(Rule_T), ms[i].val)
    ELSE ArrayOrStringHelper_deserialize(ms[i].val)

\* C24: the error of an invalid object is that of its first offending
\* member in document order: UnknownField or DuplicateField naming its key,
\* or the error of decoding its value; the members after it have no
\* influence.  Without an offending member the object is accepted when
\* both keys are there, and otherwise fails with MissingField, naming rules
\* when rules is missing (also when both are) and value otherwise.
C24_FirstOffenceDecides ==
    ObjectForm =>
        LET ms == wire.members
            k == FirstOffence(ms)
        IN IF k = 0
           THEN /\ MissingKeys(ms) = {} => result.ok
                /\ "rules" \in MissingKeys(ms) => result = missing_field("rules")
                /\ MissingKeys(ms) = {"value"} => result = missing_field("value")
           ELSE /\ ~result.ok
                /\ result.err # "MissingField"
                /\ Offence(ms, k) = "UnknownField" => result = unknown_field(ms[k].key)
                /\ Offence(ms, k) = "DuplicateField" => result = duplicate_field(ms[k].key)
                /\ Offence(ms, k) = "Undecodable" => result = MemberDecoded(ms, k)
                /\ result = Argument_deserialize(JObj(SubSeq(ms, 1, k)))

\* a repeated value with an undecodable content, then an unknown key, and
\* rules missing: DuplicateField
C24_Witness ==
    /\ ObjectForm
    /\ wire.members = <<Member("value", JStr("--demo")), Member("value", JNum(854)),
                        Member("conditions", JArr(<<>>))>>
    /\ result = duplicate_field("value")

\* the empty object: MissingField, naming rules
C24_WitnessBothMissing ==
    /\ ObjectForm
    /\ wire.members = <<>>
    /\ result = missing_field("rules")

\* an undecodable value before an unknown key
C24_WitnessUndecodable ==
    /\ ObjectForm
    /\ wire.members = <<Member("rules", JArr(<<>>)), Member("value", JNum(854)),
                        Member("values", JArr(<<JStr("--demo")>>))>>
    /\ result = invalid_type

(***************************************************************************)
(* C25.                                                                    *)
(***************************************************************************)
FromStrRun == op = "Argument::from_str"

\* C25: from_str(s) succeeds for every s and returns what decoding the bare
\* JSON string s returns, the entry without rules whose only value is s
\* itself, also when s is the text of a JSON object or array.
C25_FromStr ==
    FromStrRun =>
        /\ result.ok
        /\ result = Argument_deserialize(JStr(typed[2]))
        /\ result.val[1] = [rules |-> <<>>, values |-> <<typed[2]>>]

\* a string that is the text of an argument object
C25_Witness ==
    /\ FromStrRun
    /\ typed[2] = "{\"rules\":[],\"value\":\"--demo\"}"
    /\ result = Ok([rules |-> <<>>, values |-> <<"{\"rules\":[],\"value\":\"--demo\"}">>])

====
